---------------------------- MODULE Spec2Model ----------------------------
(***************************************************************************)
(* Model of the notebook                                                   *)
(*   EXC10-Test1-FOM_Newton_optimal_parameter_computation.ipynb            *)
(* (FOM Newton computation for model problem 2, 10 parameters).            *)
(*                                                                         *)
(* The notebook is a linear sequence of statements; the model keeps the    *)
(* notebook's variables, a heap of parameter objects (so that in-place     *)
(* assignment and rebinding can be told apart), and the state of the one   *)
(* call of solve_optimization_NewtonMethod.                                *)
(*                                                                         *)
(* Numbers.  Parameter coefficients are integers in units of 1e-4          *)
(* (0.025 is 250, 100 is 1000000).  Functional values are integers in      *)
(* units of 1e-6.  Quantities that span many decades (the FOC condition,   *)
(* the tolerance, the radius) are decimal floats <<m, e>> meaning          *)
(* m * 10^e with 1000 <= m <= 9999.                                        *)
(***************************************************************************)
EXTENDS Integers, Sequences, FiniteSets, TLC

VARIABLES
    pc,            \* the next notebook statement
    input_dict,    \* result of set_input_dict, NoValue before
    problem,       \* TRUE once EXC_problem has returned
    opt_fom,       \* TRUE once the discretizer has returned
    settings,      \* the optimizer settings of cell 4, NoValue before
    heap,          \* parameter objects: sequence of coefficient vectors
    mu,            \* reference (index into heap) of the starting parameter, 0 = unbound
    vis_mu,        \* reference of the visualization parameter, 0 = unbound
    vis_n,         \* number of in-place assignments to vis_mu done so far
    evaluated,     \* the last parameter handed to the model / coefficient functions
    J_start,       \* output_functional_hat(mu), -1 before
    TR_parameters, \* the dictionary passed to the optimizer, NoValue before
    sp,            \* position inside solve_optimization_NewtonMethod
    i,             \* outer iteration counter of the optimizer
    j,             \* Armijo trial counter of the current outer iteration
    mu_k,          \* current iterate of the optimizer
    J_k,           \* functional value of the current iterate
    normgrad,      \* FOC condition of the current iterate, NoValue before the first step
    direction,     \* "newton" or "gradient": direction of the current iteration
    mus,           \* iterates recorded by the optimizer: [len, last]
    converged,     \* TRUE once the optimizer has printed 'Converged'
    solver_calls,  \* number of calls of solve_optimization_NewtonMethod
    mus_1,         \* the notebook's mus_1 after the call: [len, last]
    u_at,          \* the parameter at which the Results cell solved the state
    cf             \* one pointwise evaluation of the cost functional

vars == << pc, input_dict, problem, opt_fom, settings, heap, mu, vis_mu, vis_n,
           evaluated, J_start, TR_parameters, sp, i, j, mu_k, J_k, normgrad,
           direction, mus, converged, solver_calls, mus_1, u_at, cf >>

NoValue == << >>

-----------------------------------------------------------------------------
(* Decimal floats <<m, e>> = m * 10^e, normalised to 1000 <= m <= 9999.      *)

Leq(a, b) == \/ a[2] < b[2]
             \/ a[2] = b[2] /\ a[1] <= b[1]

-----------------------------------------------------------------------------
(* Problem definition cell.                                                 *)

\* parametric_quantities: 7 heaters, 3 walls, no windows, no doors
parametric_quantities ==
    [walls |-> <<1, 4, 9>>, windows |-> << >>, doors |-> << >>,
     heaters |-> <<1, 3, 5, 6, 7, 8, 9>>]

NumHeaters == Len(parametric_quantities.heaters)
NumWalls   == Len(parametric_quantities.walls)
Dim        == NumHeaters + NumWalls

\* the keyword arguments of set_input_dict that give ranges (units of 1e-4);
\* first two variants: a wall range starting at 0.0025, and one starting at 0
set_input_dict_wide_walls ==
    [owc |-> <<25, 1000>>, iwc |-> <<25, 1000>>, ht |-> <<0, 1000000>>]

set_input_dict_zero_walls ==
    [owc |-> <<0, 1000>>, iwc |-> <<0, 1000>>, ht |-> <<0, 1000000>>]

set_input_dict ==
    [owc |-> <<250, 1000>>, iwc |-> <<250, 1000>>, ht |-> <<0, 1000000>>]

Min(a, b) == IF a <= b THEN a ELSE b
Max(a, b) == IF a >= b THEN a ELSE b

\* The ranges of the parameter space built from an input dictionary: heaters
\* range over ht, walls over the outer/inner wall ranges owc/iwc.  Layout of a
\* vector: heaters first, then walls (parse_parameter_inverse).
parameter_space(d) ==
    [lo |-> [n \in 1..Dim |-> IF n <= NumHeaters THEN d.ht[1]
                              ELSE Min(d.owc[1], d.iwc[1])],
     hi |-> [n \in 1..Dim |-> IF n <= NumHeaters THEN d.ht[2]
                              ELSE Max(d.owc[2], d.iwc[2])]]

IsHeater(n) == n \in 1..NumHeaters
IsWall(n)   == n \in (NumHeaters + 1)..Dim

Vec(h, w) == [n \in 1..Dim |-> IF n <= NumHeaters THEN h ELSE w]

-----------------------------------------------------------------------------
(* Recorded run: the outputs stored in the notebook.                        *)

\* print(mu) after sample_randomly(1, seed=1)
RecordedStart ==
    << 417022, 720324, 114, 302333, 146756, 92339, 186260, 509, 548, 654 >>

\* 'Starting J'
RecordedJStart == 501305285

\* 'Starting parameter: [4.17022005e+01 ...]', parse_parameter_inverse(mu) in cell 8
RecordedParsedStart ==
    << 417022, 720324, 114, 302333, 146756, 92339, 186260, 509, 548, 654 >>

\* 'Starting parameter {heaters: [41.7022004702574, ...], walls: [...]}',
\* printed by solve_optimization_NewtonMethod
RecordedSolverStart ==
    << 417022, 720324, 114, 302333, 146756, 92339, 186260, 509, 548, 654 >>

\* the printed 'Step ..., functional ..., FOC condition ...' lines, and whether
\* 'Choosing the gradient as direction' was printed in that iteration
RecordedSteps_increase == <<
    [mu |-> << 285904, 585623, 0, 233557, 75738, 20316, 0, 250, 250, 250 >>,
     J |-> 5663654, FOC |-> <<4691, -4>>, direction |-> "gradient"],
    [mu |-> << 280155, 286908, 988, 295156, 304252, 309481, 3870, 1000, 1000, 460 >>,
     J |-> 5863654, FOC |-> <<2709, -4>>, direction |-> "newton"],
    [mu |-> << 166388, 169804, 172743, 173733, 179008, 180933, 170023, 445, 1000, 250 >>,
     J |-> 2775066, FOC |-> <<4613, -5>>, direction |-> "newton"],
    [mu |-> << 164946, 169167, 173272, 174823, 181198, 183186, 169768, 250, 737, 250 >>,
     J |-> 2773608, FOC |-> <<2048, -5>>, direction |-> "newton"],
    [mu |-> << 165212, 169282, 173211, 174659, 181157, 183976, 169401, 250, 250, 250 >>,
     J |-> 2772773, FOC |-> <<4187, -7>>, direction |-> "newton"],
    [mu |-> << 165189, 169282, 173239, 174695, 181230, 184076, 169345, 250, 250, 250 >>,
     J |-> 2772773, FOC |-> <<9291, -16>>, direction |-> "newton"] >>


RecordedSteps == <<
    [mu |-> << 285904, 585623, 0, 233557, 75738, 20316, 0, 250, 250, 250 >>,
     J |-> 5663654, FOC |-> <<4691, -4>>, direction |-> "gradient"],
    [mu |-> << 280155, 286908, 988, 295156, 304252, 309481, 3870, 1000, 1000, 460 >>,
     J |-> 4008831, FOC |-> <<2709, -4>>, direction |-> "newton"],
    [mu |-> << 166388, 169804, 172743, 173733, 179008, 180933, 170023, 445, 1000, 250 >>,
     J |-> 2775066, FOC |-> <<4613, -5>>, direction |-> "newton"],
    [mu |-> << 164946, 169167, 173272, 174823, 181198, 183186, 169768, 250, 737, 250 >>,
     J |-> 2773608, FOC |-> <<2048, -5>>, direction |-> "newton"],
    [mu |-> << 165212, 169282, 173211, 174659, 181157, 183976, 169401, 250, 250, 250 >>,
     J |-> 2772773, FOC |-> <<4187, -7>>, direction |-> "newton"],
    [mu |-> << 165189, 169282, 173239, 174695, 181230, 184076, 169345, 250, 250, 250 >>,
     J |-> 2772773, FOC |-> <<9291, -16>>, direction |-> "newton"] >>


-----------------------------------------------------------------------------
(* Settings cell.                                                           *)

radius           == <<1000, -4>>     \* 0.1, 'TR radius'
FOC_tolerance    == <<1000, -15>>    \* 1e-12
max_it           == 400
max_it_arm       == 50
init_step_armijo == <<5000, -4>>     \* 0.5
armijo_alpha     == <<1000, -7>>     \* 1e-4
epsilon_i        == <<1000, -11>>    \* 1e-8

Settings ==
    [radius |-> radius, FOC_tolerance |-> FOC_tolerance, max_it |-> max_it,
     max_it_arm |-> max_it_arm, init_step_armijo |-> init_step_armijo,
     armijo_alpha |-> armijo_alpha, epsilon_i |-> epsilon_i]

-----------------------------------------------------------------------------
(* Parameter objects.                                                       *)

InRange(space, v) ==
    /\ DOMAIN v = 1..Dim
    /\ \A n \in 1..Dim : space.lo[n] <= v[n] /\ v[n] <= space.hi[n]

\* problem.parameter_space.sample_randomly(1, seed=s)[0]: a draw within the
\* ranges of the space.  The draw with seed 1 is the one the notebook printed;
\* the draw with seed 13 is never printed, so every modelled draw is possible.
SampleValues(lo, hi) == {lo, (lo + hi) \div 2, hi}

sample_randomly(space, seed) ==
    IF seed = 1
    THEN {RecordedStart}
    ELSE {Vec(h, w) : h \in SampleValues(space.lo[1], space.hi[1]),
                      w \in SampleValues(space.lo[Dim], space.hi[Dim])}

\* The in-place assignments of the visualization cell, in order:
\* vis_mu['walls'][0] = 0.35 ... vis_mu['heaters'][6] = 90, as <<component, value>>
vis_assignments == <<
    <<NumHeaters + 1, 3500>>, <<NumHeaters + 2, 2000>>, <<NumHeaters + 3, 1>>,
    <<1, 300000>>, <<2, 400000>>, <<3, 500000>>, <<4, 600000>>,
    <<5, 700000>>, <<6, 800000>>, <<7, 900000>> >>

-----------------------------------------------------------------------------
(* The notebook's statements in execution order (second), after a variant   *)
(* order that runs the discretizer before EXC_problem.                      *)

CellOrder_discretize_first ==
    << "c1", "c2", "c3_input", "c3_discretize", "c3_problem", "c4", "c5",
       "c6_sample", "c6_assign", "c6_eval", "c7", "c8", "c9_call", "c9_run",
       "c10", "c11", "done" >>

CellOrder ==
    << "c1", "c2", "c3_input", "c3_problem", "c3_discretize", "c4", "c5",
       "c6_sample", "c6_assign", "c6_eval", "c7", "c8", "c9_call", "c9_run",
       "c10", "c11", "done" >>

\* pc is a position of CellOrder; At is the statement to execute next
At == CellOrder[pc]

-----------------------------------------------------------------------------
(* The optimizer: solve_optimization_NewtonMethod and what it evaluates.    *)

\* clamp every coefficient to its range
projection_onto_range(space, v) ==
    [n \in 1..Dim |-> Max(space.lo[n], Min(space.hi[n], v[n]))]

\* opt_fom.output_functional_hat at a parameter.  The model evaluation is
\* opaque; the notebook records its value at the starting parameter only,
\* and any other parameter gives some other value.
output_functional_hat(v) ==
    IF v = RecordedStart THEN RecordedJStart ELSE RecordedJStart + 1

\* stationarity at the starting parameter (never printed): the recorded CG
\* residual 57.63 stands for it; it is far above any tolerance
StartFOC == <<5763, -2>>

\* Outcomes of one model evaluation that the optimizer may meet besides the
\* recorded ones: the unprojected trial point, and the functional value and
\* FOC condition at its projection.
Trials ==
    { [raw |-> Vec(170000, 1500),  J |-> 3000000,   FOC |-> <<5000, -13>>],
      [raw |-> Vec(1200000, 1500), J |-> 600000000, FOC |-> <<2500, -4>>],
      [raw |-> Vec(-50000, -100),  J |-> 2000000,   FOC |-> <<1000, -15>>] }

Abs(x) == IF x < 0 THEN -x ELSE x

RECURSIVE SumSq(_, _, _)
SumSq(a, b, n) ==
    IF n = 0 THEN 0
    ELSE ((Abs(a[n] - b[n]) \div 100) * (Abs(a[n] - b[n]) \div 100))
         + SumSq(a, b, n - 1)

\* |a - b|^2 in units of 1e-4 (differences rounded to 0.01)
NormSq(a, b) == SumSq(a, b, Dim)

\* Armijo condition of trial jj with step 0.5^jj and kappa_arm = 1e-4:
\*   J(trial) <= J(mu_k) - (kappa_arm / 0.5^jj) * |trial - mu_k|^2
\* in the units above: (NormSq / 100) * 2^jj <= Ji - Jt.
ArmijoAccept(Ji, Jt, nsq, jj) ==
    /\ Jt <= Ji
    /\ (nsq \div 100) <= (Ji - Jt) \div (2 ^ Min(jj, 30))

\* the dictionary of the FOM Newton cell; before it, variants that pass the
\* configured radius, epsilon_i as tolerance, and the two limits swapped
TR_dict_configured_radius(s, start) ==
    [radius |-> s.radius, sub_tolerance |-> s.FOC_tolerance,
     max_iterations |-> s.max_it, starting_parameter |-> start,
     epsilon_i |-> s.epsilon_i, max_iterations_armijo |-> s.max_it_arm,
     initial_step_armijo |-> s.init_step_armijo,
     armijo_alpha |-> s.armijo_alpha, full_order_model |-> TRUE]

TR_dict_wrong_tolerance(s, start) ==
    [radius |-> <<1000, 15>>, sub_tolerance |-> s.epsilon_i,
     max_iterations |-> s.max_it, starting_parameter |-> start,
     epsilon_i |-> s.epsilon_i, max_iterations_armijo |-> s.max_it_arm,
     initial_step_armijo |-> s.init_step_armijo,
     armijo_alpha |-> s.armijo_alpha, full_order_model |-> TRUE]

TR_dict_swapped_limits(s, start) ==
    [radius |-> <<1000, 15>>, sub_tolerance |-> s.FOC_tolerance,
     max_iterations |-> s.max_it_arm, starting_parameter |-> start,
     epsilon_i |-> s.epsilon_i, max_iterations_armijo |-> s.max_it,
     initial_step_armijo |-> s.init_step_armijo,
     armijo_alpha |-> s.armijo_alpha, full_order_model |-> TRUE]

TR_dict(s, start) ==
    [radius |-> <<1000, 15>>, sub_tolerance |-> s.FOC_tolerance,
     max_iterations |-> s.max_it, starting_parameter |-> start,
     epsilon_i |-> s.epsilon_i, max_iterations_armijo |-> s.max_it_arm,
     initial_step_armijo |-> s.init_step_armijo,
     armijo_alpha |-> s.armijo_alpha, full_order_model |-> TRUE]

RecordedIterates == { RecordedSteps[n].mu : n \in 1..Len(RecordedSteps) }

\* the iterate the recorded run holds after n steps
RecordedIterate(n) == IF n = 0 THEN RecordedStart ELSE RecordedSteps[n].mu

-----------------------------------------------------------------------------
(* Initial state: a fresh kernel, nothing executed.                         *)

NoEvaluation == [len |-> 0, last |-> NoValue]

Init ==
    /\ pc = 1
    /\ input_dict = NoValue
    /\ problem = FALSE
    /\ opt_fom = FALSE
    /\ settings = NoValue
    /\ heap = << >>
    /\ mu = 0
    /\ vis_mu = 0
    /\ vis_n = 0
    /\ evaluated = NoValue
    /\ J_start = -1
    /\ TR_parameters = NoValue
    /\ sp = "idle"
    /\ i = 0
    /\ j = 0
    /\ mu_k = NoValue
    /\ J_k = -1
    /\ normgrad = NoValue
    /\ direction = "none"
    /\ mus = NoEvaluation
    /\ converged = FALSE
    /\ solver_calls = 0
    /\ mus_1 = NoEvaluation
    /\ u_at = NoValue
    /\ cf = NoValue

solverVars == << sp, i, j, mu_k, J_k, normgrad, direction, mus, converged >>
setupVars  == << input_dict, problem, opt_fom, settings >>

-----------------------------------------------------------------------------
(* Notebook statements.                                                     *)

\* cell 1: imports
Cell1 ==
    /\ At = "c1"
    /\ pc' = pc + 1
    /\ UNCHANGED << setupVars, heap, mu, vis_mu, vis_n, evaluated, J_start,
                    TR_parameters, solverVars, solver_calls, mus_1, u_at, cf >>

\* cell 2: logging, plot settings, domain of interest
Cell2 ==
    /\ At = "c2"
    /\ pc' = pc + 1
    /\ UNCHANGED << setupVars, heap, mu, vis_mu, vis_n, evaluated, J_start,
                    TR_parameters, solverVars, solver_calls, mus_1, u_at, cf >>

\* cell 3: input_dict = set_input_dict(...)
SetInputDict ==
    /\ At = "c3_input"
    /\ input_dict' = set_input_dict
    /\ pc' = pc + 1
    /\ UNCHANGED << problem, opt_fom, settings, heap, mu, vis_mu, vis_n,
                    evaluated, J_start, TR_parameters, solverVars,
                    solver_calls, mus_1, u_at, cf >>

\* cell 3: problem, parameter_scales = EXC_problem(input_dict, ...)
BuildProblem ==
    /\ At = "c3_problem"
    /\ problem' = TRUE
    /\ pc' = pc + 1
    /\ UNCHANGED << input_dict, opt_fom, settings, heap, mu, vis_mu, vis_n,
                    evaluated, J_start, TR_parameters, solverVars,
                    solver_calls, mus_1, u_at, cf >>

\* cell 3: opt_fom, data, mu_bar = discretize_quadratic_pdeopt_stationary_cg(problem, ...)
Discretize ==
    /\ At = "c3_discretize"
    /\ opt_fom' = TRUE
    /\ pc' = pc + 1
    /\ UNCHANGED << input_dict, problem, settings, heap, mu, vis_mu, vis_n,
                    evaluated, J_start, TR_parameters, solverVars,
                    solver_calls, mus_1, u_at, cf >>

\* cell 4: grid information and the optimizer settings
Cell4 ==
    /\ At = "c4"
    /\ settings' = Settings
    /\ pc' = pc + 1
    /\ UNCHANGED << input_dict, problem, opt_fom, heap, mu, vis_mu, vis_n,
                    evaluated, J_start, TR_parameters, solverVars,
                    solver_calls, mus_1, u_at, cf >>

\* cell 5: mu = problem.parameter_space.sample_randomly(1, seed=1)[0]
SampleMu ==
    /\ At = "c5"
    /\ \E v \in sample_randomly(parameter_space(input_dict), 1) :
          /\ heap' = Append(heap, v)
          /\ mu' = Len(heap) + 1
    /\ pc' = pc + 1
    /\ UNCHANGED << setupVars, vis_mu, vis_n, evaluated, J_start,
                    TR_parameters, solverVars, solver_calls, mus_1, u_at, cf >>

\* cell 6: vis_mu = problem.parameter_space.sample_randomly(1, seed=13)[0]
SampleVisMu ==
    /\ At = "c6_sample"
    /\ \E v \in sample_randomly(parameter_space(input_dict), 13) :
          /\ heap' = Append(heap, v)
          /\ vis_mu' = Len(heap) + 1
    /\ vis_n' = 0
    /\ pc' = pc + 1
    /\ UNCHANGED << setupVars, mu, evaluated, J_start, TR_parameters,
                    solverVars, solver_calls, mus_1, u_at, cf >>

AssignVisMu_on_mu ==
    /\ At = "c6_assign"
    /\ vis_n < Len(vis_assignments)
    /\ LET a == vis_assignments[vis_n + 1]
       IN  heap' = [heap EXCEPT ![mu][a[1]] = a[2]]
    /\ vis_n' = vis_n + 1
    /\ pc' = IF vis_n + 1 = Len(vis_assignments) THEN pc + 1 ELSE pc
    /\ UNCHANGED << setupVars, mu, vis_mu, evaluated, J_start, TR_parameters,
                    solverVars, solver_calls, mus_1, u_at, cf >>

\* cell 6: the next of the assignments vis_mu[group][k] = value, in place
AssignVisMu ==
    /\ At = "c6_assign"
    /\ vis_n < Len(vis_assignments)
    /\ LET a == vis_assignments[vis_n + 1]
       IN  heap' = [heap EXCEPT ![vis_mu][a[1]] = a[2]]
    /\ vis_n' = vis_n + 1
    /\ pc' = IF vis_n + 1 = Len(vis_assignments) THEN pc + 1 ELSE pc
    /\ UNCHANGED << setupVars, mu, vis_mu, evaluated, J_start, TR_parameters,
                    solverVars, solver_calls, mus_1, u_at, cf >>

\* cell 6: InterpolationOperator(...).as_vector(vis_mu) for diff, rhs, doI
EvalVisMu ==
    /\ At = "c6_eval"
    /\ evaluated' = [ref |-> vis_mu, val |-> heap[vis_mu]]
    /\ pc' = pc + 1
    /\ UNCHANGED << setupVars, heap, mu, vis_mu, vis_n, J_start,
                    TR_parameters, solverVars, solver_calls, mus_1, u_at, cf >>

\* cell 7: u = opt_fom.solve(mu); p = opt_fom.solve_dual(mu)
Cell7 ==
    /\ At = "c7"
    /\ evaluated' = [ref |-> mu, val |-> heap[mu]]
    /\ pc' = pc + 1
    /\ UNCHANGED << setupVars, heap, mu, vis_mu, vis_n, J_start,
                    TR_parameters, solverVars, solver_calls, mus_1, u_at, cf >>

\* cell 8: J_start = opt_fom.output_functional_hat(mu)
Cell8 ==
    /\ At = "c8"
    /\ evaluated' = [ref |-> mu, val |-> heap[mu]]
    /\ J_start' = output_functional_hat(heap[mu])
    /\ pc' = pc + 1
    /\ UNCHANGED << setupVars, heap, mu, vis_mu, vis_n, TR_parameters,
                    solverVars, solver_calls, mus_1, u_at, cf >>

\* variant of the call below that starts from the visualization parameter
SolverCall_vis_start ==
    /\ At = "c9_call"
    /\ TR_parameters' = TR_dict(settings, vis_mu)
    /\ solver_calls' = solver_calls + 1
    /\ sp' = "cg"
    /\ i' = 0
    /\ j' = 0
    /\ mu_k' = heap[TR_parameters'.starting_parameter]
    /\ J_k' = output_functional_hat(heap[mu])
    /\ evaluated' = [ref |-> mu, val |-> heap[mu]]
    /\ normgrad' = NoValue
    /\ direction' = "none"
    /\ mus' = NoEvaluation
    /\ converged' = FALSE
    /\ pc' = pc + 1
    /\ UNCHANGED << setupVars, heap, mu, vis_mu, vis_n, J_start, mus_1, u_at, cf >>

\* cell 9: TR_parameters = {...}; solve_optimization_NewtonMethod(opt_fom, ..., mu, TR_parameters)
\* The optimizer starts from TR_parameters['starting_parameter'].
SolverCall ==
    /\ At = "c9_call"
    /\ TR_parameters' = TR_dict(settings, mu)
    /\ solver_calls' = solver_calls + 1
    /\ sp' = "cg"
    /\ i' = 0
    /\ j' = 0
    /\ mu_k' = heap[TR_parameters'.starting_parameter]
    /\ J_k' = output_functional_hat(heap[mu])
    /\ evaluated' = [ref |-> mu, val |-> heap[mu]]
    /\ normgrad' = NoValue
    /\ direction' = "none"
    /\ mus' = NoEvaluation
    /\ converged' = FALSE
    /\ pc' = pc + 1
    /\ UNCHANGED << setupVars, heap, mu, vis_mu, vis_n, J_start, mus_1, u_at, cf >>

-----------------------------------------------------------------------------
(* Inside solve_optimization_NewtonMethod.                                  *)

nbVars == << pc, setupVars, heap, mu, vis_mu, vis_n, J_start, TR_parameters,
             solver_calls, mus_1, u_at, cf >>

Space == parameter_space(input_dict)

\* 'Using truncated CG for the linear system'; when CG is abandoned because
\* p_k is no descent direction, 'Choosing the gradient as direction'
TruncatedCG ==
    /\ sp = "cg"
    /\ i < TR_parameters.max_iterations
    /\ mu_k \notin RecordedIterates
    /\ \E d \in {"newton", "gradient"} : direction' = d
    /\ evaluated' = [ref |-> 0, val |-> mu_k]
    /\ j' = 0
    /\ sp' = "armijo"
    /\ UNCHANGED << nbVars, i, mu_k, J_k, normgrad, mus, converged >>

\* One Armijo trial: the trial point is projected onto the parameter range
\* and evaluated; it becomes the next iterate if the Armijo condition holds.
ArmijoTrial ==
    /\ sp = "armijo"
    /\ j < TR_parameters.max_iterations_armijo
    /\ \E c \in Trials :
         LET t == projection_onto_range(Space, c.raw)
         IN  /\ evaluated' = [ref |-> 0, val |-> t]
             /\ IF ArmijoAccept(J_k, c.J, NormSq(mu_k, t), j)
                THEN /\ mu_k' = t
                     /\ J_k' = c.J
                     /\ normgrad' = c.FOC
                     /\ mus' = [len |-> mus.len + 1, last |-> t]
                     /\ i' = i + 1
                     /\ j' = 0
                     /\ sp' = "check"
                ELSE /\ j' = j + 1
                     /\ UNCHANGED << mu_k, J_k, normgrad, mus, i, sp >>
    /\ UNCHANGED << nbVars, direction, converged >>

\* 'Maximum iteration for Armijo rule reached': the iterate stays
ArmijoFail ==
    /\ sp = "armijo"
    /\ j >= TR_parameters.max_iterations_armijo
    /\ normgrad' = IF normgrad = NoValue THEN StartFOC ELSE normgrad
    /\ mus' = [len |-> mus.len + 1, last |-> mu_k]
    /\ i' = i + 1
    /\ j' = 0
    /\ sp' = "check"
    /\ UNCHANGED << nbVars, evaluated, mu_k, J_k, direction, converged >>

\* One outer iteration as the notebook recorded it: the printed 'Step' line
RecordedStep ==
    /\ sp = "cg"
    /\ i < TR_parameters.max_iterations
    /\ i < Len(RecordedSteps)
    /\ mu_k = RecordedIterate(i)
    /\ LET r == RecordedSteps[i + 1]
       IN  /\ mu_k' = r.mu
           /\ J_k' = r.J
           /\ normgrad' = r.FOC
           /\ direction' = r.direction
           /\ mus' = [len |-> mus.len + 1, last |-> r.mu]
           /\ evaluated' = [ref |-> 0, val |-> r.mu]
    /\ i' = i + 1
    /\ j' = 0
    /\ sp' = "check"
    /\ UNCHANGED << nbVars, converged >>

\* 'Converged: FOC = ...' when the FOC condition meets sub_tolerance
ConvergenceCheck ==
    /\ sp = "check"
    /\ IF Leq(normgrad, TR_parameters.sub_tolerance)
       THEN converged' = TRUE /\ sp' = "returned"
       ELSE converged' = FALSE /\ sp' = "cg"
    /\ UNCHANGED << nbVars, evaluated, i, j, mu_k, J_k, normgrad, direction, mus >>

\* the iteration limit ends the loop without convergence
MaxIterations ==
    /\ sp = "cg"
    /\ i >= TR_parameters.max_iterations
    /\ sp' = "returned"
    /\ UNCHANGED << nbVars, evaluated, i, j, mu_k, J_k, normgrad, direction,
                    mus, converged >>

\* cell 9: muoptfom, _, _, _, times_1, mus_1, Js_1, FOC_1 = <the call returns>
SolverReturn ==
    /\ At = "c9_run"
    /\ sp = "returned"
    /\ mus_1' = mus
    /\ pc' = pc + 1
    /\ UNCHANGED << setupVars, heap, mu, vis_mu, vis_n, evaluated, J_start,
                    TR_parameters, solverVars, solver_calls, u_at, cf >>

-----------------------------------------------------------------------------
(* Results.                                                                 *)

\* cell 10: print mus_1[-1]; u = opt_fom.solve(opt_fom.pre_parse_parameter(mus_1[-1]))
Cell10_only_if_converged ==
    /\ At = "c10"
    /\ converged
    /\ evaluated' = [ref |-> 0, val |-> mus_1.last]
    /\ u_at' = mus_1.last
    /\ pc' = pc + 1
    /\ UNCHANGED << setupVars, heap, mu, vis_mu, vis_n, J_start,
                    TR_parameters, solverVars, solver_calls, mus_1, cf >>

Cell10 ==
    /\ At = "c10"
    /\ evaluated' = [ref |-> 0, val |-> mus_1.last]
    /\ u_at' = mus_1.last
    /\ pc' = pc + 1
    /\ UNCHANGED << setupVars, heap, mu, vis_mu, vis_n, J_start,
                    TR_parameters, solverVars, solver_calls, mus_1, cf >>

\* cell 11: L2 error of u against the desired temperature on the domain of interest
Cell11 ==
    /\ At = "c11"
    /\ pc' = pc + 1
    /\ UNCHANGED << setupVars, heap, mu, vis_mu, vis_n, evaluated, J_start,
                    TR_parameters, solverVars, solver_calls, mus_1, u_at, cf >>

Next ==
    \/ Cell1 \/ Cell2 \/ SetInputDict \/ BuildProblem \/ Discretize \/ Cell4
    \/ SampleMu \/ SampleVisMu \/ AssignVisMu \/ EvalVisMu \/ Cell7 \/ Cell8
    \/ SolverCall \/ TruncatedCG \/ ArmijoTrial \/ ArmijoFail \/ RecordedStep
    \/ ConvergenceCheck \/ MaxIterations \/ SolverReturn \/ Cell10 \/ Cell11

Spec == Init /\ [][Next]_vars

-----------------------------------------------------------------------------
(* The cost functional of the introduction, evaluated pointwise.  All four  *)
(* operators return twice their value, so that the halves stay integers.    *)

u_d     == 18
sigma_d == 100
CFMax   == 2

\* twice sum_i sigma_i mu_i^2 / 2, over the two modelled parameters
ParamTerm(sig, m) == sig[1] * m[1] * m[1] + sig[2] * m[2] * m[2]

\* J(v, mu) = sigma_D/2 (v - u_d)^2 + 1/2 sum sigma_i mu_i^2
TrackingJ(v, ud, sD, sig, m) == sD * (v - ud) * (v - ud) + ParamTerm(sig, m)

\* Theta(mu) = 1/2 sum sigma_i mu_i^2 + sigma_D/2 u_d u_d
Theta(ud, sD, sig, m) == ParamTerm(sig, m) + sD * ud * ud

\* j_mu(u) = -sigma_D u_d u
j_mu_plus(v, ud, sD) == 2 * sD * ud * v

j_mu(v, ud, sD) == -(2 * sD * ud * v)

\* k_mu(u, u) = sigma_D/2 u^2
k_mu(v, sD) == sD * v * v

CFValues  == (-CFMax)..CFMax
CFWeights == 0..CFMax

InitJ ==
    /\ pc = 1 /\ input_dict = NoValue /\ problem = FALSE /\ opt_fom = FALSE
    /\ settings = NoValue /\ heap = << >> /\ mu = 0 /\ vis_mu = 0 /\ vis_n = 0
    /\ evaluated = NoValue /\ J_start = -1 /\ TR_parameters = NoValue
    /\ sp = "idle" /\ i = 0 /\ j = 0 /\ mu_k = NoValue /\ J_k = -1
    /\ normgrad = NoValue /\ direction = "none" /\ mus = NoEvaluation
    /\ converged = FALSE /\ solver_calls = 0 /\ mus_1 = NoEvaluation
    /\ u_at = NoValue
    /\ cf \in [ v : CFValues, u_d : CFValues \cup {u_d},
                sigma_D : CFWeights \cup {sigma_d},
                sigma : [1..2 -> CFWeights], mu : [1..2 -> CFWeights],
                done : {FALSE}, decomposed : {0}, tracking : {0} ]

\* evaluate the functional both ways at the drawn point
EvalCostFunctional ==
    /\ cf # NoValue
    /\ ~cf.done
    /\ cf' = [cf EXCEPT
                !.done = TRUE,
                !.decomposed = Theta(cf.u_d, cf.sigma_D, cf.sigma, cf.mu)
                               + j_mu(cf.v, cf.u_d, cf.sigma_D)
                               + k_mu(cf.v, cf.sigma_D),
                !.tracking = TrackingJ(cf.v, cf.u_d, cf.sigma_D, cf.sigma, cf.mu)]
    /\ UNCHANGED << pc, setupVars, heap, mu, vis_mu, vis_n, evaluated, J_start,
                    TR_parameters, solverVars, solver_calls, mus_1, u_at >>

SpecJ == InitJ /\ [][EvalCostFunctional]_vars

-----------------------------------------------------------------------------
(* Properties.                                                              *)

Running == sp \in {"cg", "armijo", "check"}

\* the box of the problem definition: heaters in [0, 100], walls in [0.025, 0.1]
InBox(v) ==
    /\ DOMAIN v = 1..Dim
    /\ \A n \in 1..Dim :
         /\ IsHeater(n) => 0 <= v[n] /\ v[n] <= 1000000
         /\ IsWall(n)   => 250 <= v[n] /\ v[n] <= 1000

\* every parameter vector of the run that exists in the current state
RunVectors ==
    (IF mu # 0 THEN {heap[mu]} ELSE {})
    \cup (IF mu_k # NoValue THEN {mu_k} ELSE {})
    \cup (IF mus.len > 0 THEN {mus.last} ELSE {})
    \cup (IF mus_1.len > 0 THEN {mus_1.last} ELSE {})
    \cup (IF u_at # NoValue THEN {u_at} ELSE {})

\* C1: the starting parameter and every iterate of the optimizer, the final
\* one reported from mus_1[-1] included, lie in the box [0, 100] (heaters),
\* [0.025, 0.1] (walls).
C1_BoxConstraints == \A v \in RunVectors : InBox(v)

\* the recorded run has finished and its last iterate sits on the lower wall bound
C1_Witness ==
    /\ At = "done"
    /\ mus_1.len = Len(RecordedSteps)
    /\ u_at = RecordedSteps[Len(RecordedSteps)].mu
    /\ u_at[Dim] = 250

C3_Original ==
    [][ /\ \A o \in 1..Len(heap) : heap'[o] = heap[o]
        /\ evaluated' # NoValue => InBox(evaluated'.val) ]_vars

\* C3, amended: every sampled vector lies in the box when it is created; the
\* starting parameter mu is never modified in place; and every vector that is
\* evaluated, other than vis_mu, lies in the box.  (vis_mu is overwritten in
\* place after sampling and evaluated with walls outside the box.)
C3_Amended ==
    [][ /\ Len(heap') > Len(heap) => InBox(heap'[Len(heap')])
        /\ mu # 0 => heap'[mu] = heap[mu] /\ mu' = mu
        /\ (evaluated' # NoValue /\ evaluated'.ref \in {0, mu'})
              => InBox(evaluated'.val) ]_vars

\* mu is evaluated, intact, after all in-place assignments to vis_mu
C3_Witness ==
    /\ At = "c8"
    /\ vis_n = Len(vis_assignments)
    /\ ~InBox(heap[vis_mu])
    /\ evaluated.ref = mu
    /\ evaluated.val = RecordedStart

\* C4 as stated: every coefficient of every parameter vector of the run is
\* strictly positive.
C4_Original ==
    \A v \in RunVectors : DOMAIN v = 1..Dim /\ \A n \in 1..Dim : v[n] > 0

\* C4, amended: every vector of the run consists of the 7 heater and the 3
\* wall coefficients (the windows and doors groups are empty); wall
\* coefficients are strictly positive, heater coefficients are non-negative
\* and may be exactly 0.
C4_Amended ==
    /\ Len(parametric_quantities.windows) = 0
    /\ Len(parametric_quantities.doors) = 0
    /\ \A v \in RunVectors :
         /\ DOMAIN v = 1..Dim
         /\ \A n \in 1..Dim : /\ IsHeater(n) => v[n] >= 0
                              /\ IsWall(n)   => v[n] > 0

\* the first recorded step has two heater coefficients equal to 0
C4_Witness ==
    /\ i = 1
    /\ mu_k = RecordedSteps[1].mu
    /\ mu_k[3] = 0
    /\ mu_k[7] = 0

\* C5: whatever the outcome of the optimizer, the Results cells run next,
\* solve the state at mus_1[-1], and the optimizer is not called again.
C5_NoRecovery ==
    /\ solver_calls <= 1
    /\ At = "c10" => sp = "returned" /\ mus_1 = mus /\ ENABLED Cell10
    /\ At = "c11" => sp = "returned" /\ u_at = mus_1.last /\ ENABLED Cell11
    /\ At = "done" => sp = "returned" /\ u_at = mus.last /\ solver_calls = 1

\* the optimizer stopped at the iteration limit and the notebook finished
C5_Witness ==
    /\ At = "done"
    /\ ~converged
    /\ mus_1.len = max_it
    /\ u_at = mus_1.last

C7_LinearPipeline ==
    /\ opt_fom => problem
    /\ mu # 0 => problem
    /\ solver_calls <= 1
    /\ sp # "idle" => opt_fom /\ mu # 0 /\ solver_calls = 1
    /\ Running => At = "c9_run"
    /\ u_at # NoValue => sp = "returned"
    /\ At = "done" => solver_calls = 1 /\ u_at # NoValue

\* the whole notebook has run
C7_Witness ==
    /\ At = "done"
    /\ problem /\ opt_fom
    /\ solver_calls = 1
    /\ converged
    /\ u_at # NoValue

\* C8: Theta(mu) + j_mu(v) + k_mu(v, v) equals the tracking functional
\* sigma_D/2 (v - u_d)^2 + 1/2 sum sigma_i mu_i^2 at every point.
C8_Decomposition ==
    (cf # NoValue /\ cf.done) => cf.decomposed = cf.tracking

\* the notebook's own weights at a state value away from the desired one
C8_Witness ==
    /\ cf # NoValue
    /\ cf.done
    /\ cf.u_d = u_d /\ cf.sigma_D = sigma_d /\ cf.v = -CFMax
    /\ cf.sigma[1] > 0 /\ cf.mu[1] > 0
    /\ cf.tracking > 0

\* progress measure of the optimizer: decreases with every step it takes
Variant ==
    IF ~Running THEN 0
    ELSE (max_it - i) * (max_it_arm + 5)
         + (CASE sp = "check"  -> max_it_arm + 4
              [] sp = "cg"     -> max_it_arm + 3
              [] sp = "armijo" -> max_it_arm + 2 - j)

C10_Monotone ==
    /\ [](sp # "idle" => J_k <= J_start /\ J_start = RecordedJStart)
    /\ [][(sp # "idle" /\ solver_calls' = solver_calls) => J_k' <= J_k]_vars

\* the recorded first step: gradient direction, functional 501.3 -> 5.66
C10_Witness ==
    /\ direction = "gradient"
    /\ i = 1
    /\ J_k = RecordedSteps[1].J
    /\ J_k < J_start

\* C11: nothing between sampling mu and the optimizer call alters mu: after
\* the in-place assignments to vis_mu and the calls solve(mu), solve_dual(mu),
\* parse_parameter_inverse(mu) and output_functional_hat(mu), mu still is the
\* vector sampled with seed 1, as both later prints of it show, and the
\* optimizer starts from it both as argument and as 'starting_parameter'.
C11_StartUnchanged ==
    /\ mu # 0 => heap[mu] = RecordedStart
    /\ J_start # -1 => heap[mu] = RecordedParsedStart
    /\ sp # "idle" =>
         /\ TR_parameters.starting_parameter = mu
         /\ heap[TR_parameters.starting_parameter] = RecordedSolverStart
         /\ heap[mu] = RecordedSolverStart
         /\ i = 0 => mu_k = RecordedStart /\ J_k = J_start

\* the optimizer has just been called, after all ten assignments to vis_mu
\* and the evaluations at mu
C11_Witness ==
    /\ sp = "cg"
    /\ i = 0
    /\ vis_n = Len(vis_assignments)
    /\ heap[vis_mu] # heap[mu]
    /\ J_start = RecordedJStart
    /\ mu_k = RecordedStart
    /\ TR_parameters.starting_parameter = mu

=============================================================================
